---- MODULE Spec2Model ----
(***************************************************************************)
(* Model of the resume intake-and-scoring application (src/app.py):        *)
(* credential store (users.csv), session, document storage (resumes/),     *)
(* AI scoring adapter, submission ledger (submissions.csv) and the         *)
(* administrator ranking.                                                  *)
(*                                                                         *)
(* Text that the code inspects (identifiers, secrets, file names, score    *)
(* fields) is a sequence of one-character strings; text that the code only *)
(* passes through (model replies, roles, form name/skills) is a string.    *)
(***************************************************************************)
EXTENDS Integers, Sequences, FiniteSets, TLC

VARIABLES
    users,      \* rows of users.csv after the header, as written
    ledger,     \* rows of submissions.csv after the header, as written
    storage,    \* resumes/ folder: stored name -> bytes (id of the upload)
    session,    \* per client: the Flask session cookie
    pc,         \* per client: position of the request being handled
    frame,      \* per client: local variables of the request being handled
    response,   \* the last response sent
    nUploads,   \* uploads accepted so far (gives each upload its own bytes)
    nSignups,   \* signups that passed the duplicate check so far
    threaded    \* whether the server handles requests of different clients at once

vars ==
    <<users, ledger, storage, session, pc, frame, response, nUploads, nSignups,
      threaded>>

----------------------------------------------------------------------------
(* Bounds *)

\* durable writes started per behaviour: accepted uploads plus signups that
\* reach the append
MaxWrites == 2
\* rows of a submissions.csv found at start-up and handed to the ranking
MaxRows == 4

Procs == {"c1", "c2"}

\* a value that is no text: Python's None (csv.DictReader fills a short row with it)
None == <<"<None>">>

----------------------------------------------------------------------------
(* Text helpers *)

Whitespace == {" ", "\t", "\n", "\r"}

Digits == <<"0", "1", "2", "3", "4", "5", "6", "7", "8", "9">>

RECURSIVE LStrip(_)
LStrip(s) ==
    IF s # <<>> /\ Head(s) \in Whitespace THEN LStrip(Tail(s)) ELSE s

RECURSIVE RStrip(_)
RStrip(s) ==
    IF s # <<>> /\ s[Len(s)] \in Whitespace
    THEN RStrip(SubSeq(s, 1, Len(s) - 1))
    ELSE s

\* str.strip()
Strip(s) == RStrip(LStrip(s))

\* str(n) for a non-negative integer
RECURSIVE StrNat(_)
StrNat(n) ==
    IF n < 10 THEN <<Digits[n + 1]>>
    ELSE StrNat(n \div 10) \o <<Digits[(n % 10) + 1]>>

\* str(n) for an integer
Str(n) == IF n < 0 THEN <<"-">> \o StrNat(0 - n) ELSE StrNat(n)

DigitValue(c) == CHOOSE d \in 0..9 : Digits[d + 1] = c

IsDigits(s) == s # <<>> /\ \A i \in 1..Len(s) : \E d \in 1..10 : Digits[d] = s[i]

RECURSIVE NatOfDigits(_)
NatOfDigits(s) ==
    IF s = <<>> THEN 0
    ELSE 10 * NatOfDigits(SubSeq(s, 1, Len(s) - 1)) + DigitValue(s[Len(s)])

\* int(text) accepts an optional sign and decimal digits, surrounded by
\* whitespace; anything else raises ValueError, int(None) raises TypeError
IntOk(t) ==
    /\ t # None
    /\ LET s == Strip(t) IN
       \/ IsDigits(s)
       \/ s # <<>> /\ Head(s) \in {"-", "+"} /\ IsDigits(Tail(s))

IntOf(t) ==
    LET s == Strip(t) IN
    IF Head(s) = "-" THEN 0 - NatOfDigits(Tail(s))
    ELSE IF Head(s) = "+" THEN NatOfDigits(Tail(s))
    ELSE NatOfDigits(s)

\* open(path, "r") without newline="": universal newlines turn "\r\n" and a
\* lone "\r" into "\n" before csv sees the text
RECURSIVE UniversalNewlines(_)
UniversalNewlines(s) ==
    IF \A i \in 1..Len(s) : s[i] # "\r" THEN s
    ELSE IF Head(s) = "\r"
    THEN IF Len(s) >= 2 /\ s[2] = "\n"
         THEN <<"\n">> \o UniversalNewlines(SubSeq(s, 3, Len(s)))
         ELSE <<"\n">> \o UniversalNewlines(Tail(s))
    ELSE <<Head(s)>> \o UniversalNewlines(Tail(s))

LowerLetters ==
    <<"a", "b", "c", "d", "e", "f", "g", "h", "i", "j", "k", "l", "m",
      "n", "o", "p", "q", "r", "s", "t", "u", "v", "w", "x", "y", "z">>

UpperLetters ==
    <<"A", "B", "C", "D", "E", "F", "G", "H", "I", "J", "K", "L", "M",
      "N", "O", "P", "Q", "R", "S", "T", "U", "V", "W", "X", "Y", "Z">>

\* str.lower(), character by character
LowerChar(c) ==
    IF \E i \in 1..26 : UpperLetters[i] = c
    THEN LowerLetters[CHOOSE i \in 1..26 : UpperLetters[i] = c]
    ELSE c

Lower(s) == [i \in 1..Len(s) |-> LowerChar(s[i])]

\* s.rfind(c), 1-based; 0 when c does not occur
RFind(s, c) ==
    IF \E i \in 1..Len(s) : s[i] = c
    THEN CHOOSE i \in 1..Len(s) : s[i] = c /\ \A j \in (i + 1)..Len(s) : s[j] # c
    ELSE 0

\* os.path.splitext: split at the last dot of the last path component,
\* unless only dots precede it in that component
splitext(path) ==
    LET sepIndex == RFind(path, "/")
        dotIndex == RFind(path, ".")
    IN  IF dotIndex > sepIndex
           /\ \E k \in (sepIndex + 1)..(dotIndex - 1) : path[k] # "."
        THEN <<SubSeq(path, 1, dotIndex - 1), SubSeq(path, dotIndex, Len(path))>>
        ELSE <<path, <<>>>>

ALLOWED_EXT == {<<".", "p", "d", "f">>}

\* every file name passes the extension test
allowed_file_any(filename) == TRUE

allowed_file(filename) == Lower(splitext(filename)[2]) \in ALLOWED_EXT

\* characters kept by werkzeug's _filename_ascii_strip_re, [^A-Za-z0-9_.-]
SafeChars ==
    {LowerLetters[i] : i \in 1..26} \cup {UpperLetters[i] : i \in 1..26}
        \cup {Digits[i] : i \in 1..10} \cup {"_", ".", "-"}

\* "_".join(filename.split())
RECURSIVE JoinWords(_)
JoinWords(s) ==
    IF s = <<>> THEN <<>>
    ELSE IF Head(s) \in Whitespace THEN <<"_">> \o JoinWords(LStrip(s))
    ELSE <<Head(s)>> \o JoinWords(Tail(s))

RECURSIVE StripChars(_, _)
StripChars(s, cs) ==
    IF s # <<>> /\ Head(s) \in cs THEN StripChars(Tail(s), cs)
    ELSE IF s # <<>> /\ s[Len(s)] \in cs THEN StripChars(SubSeq(s, 1, Len(s) - 1), cs)
    ELSE s

IsSafeChar(c) == c \in SafeChars

\* werkzeug.utils.secure_filename on a POSIX host, for ASCII input: path
\* separators become spaces, words are joined by "_", unsafe characters are
\* dropped, leading and trailing "." and "_" are stripped
secure_filename(filename) ==
    LET spaced == [i \in 1..Len(filename) |->
                      IF filename[i] = "/" THEN " " ELSE filename[i]]
        joined == JoinWords(Strip(spaced))
    IN  StripChars(SelectSeq(joined, IsSafeChar), {".", "_"})

\* the suffix runs one ahead of the counter
suffixed_ahead(base, counter, ext) == base \o <<"_">> \o Str(counter + 1) \o ext

\* f"{base}_{counter}{ext}"
suffixed(base, counter, ext) == base \o <<"_">> \o Str(counter) \o ext


----------------------------------------------------------------------------
(* AI scoring adapter *)

\* JSON values as json.loads builds them
JInt(n) == [type |-> "int", i |-> n]
\* a float, in thousandths
JFloat(m) == [type |-> "float", milli |-> m]
JInf == [type |-> "float_inf"]
JStr(chars, repr) == [type |-> "str", s |-> chars, repr |-> repr]
JBool(b) == [type |-> "bool", b |-> b]
JNull == [type |-> "NoneType"]
JList == [type |-> "list"]
JAbsent == [type |-> "absent"]
JRole(text) == [type |-> "str", text |-> text]
JDict(score, best_role) == [type |-> "dict", score |-> score, best_role |-> best_role]

DecodeError == [type |-> "JSONDecodeError"]

\* replies of the external model, as text
ReplyScenario == "{\"score\": 82, \"best_role\": \"Backend Engineer\"}"
ReplyProse == "Looks solid."
ReplyEmpty == ""
ReplyPrefixed == "Here is the JSON: {\"score\": 82, \"best_role\": \"Backend Engineer\"}"
ReplyList == "[1]"
ReplyNumber == "7"
ReplyNull == "null"
ReplyEmptyObject == "{}"
ReplyScoreWord == "{\"score\": \"high\", \"best_role\": \"QA\"}"
ReplyScoreNull == "{\"score\": null}"
ReplyScoreFloat == "{\"score\": 82.7, \"best_role\": \"QA\"}"
ReplyScoreText == "{\"score\": \" 82\"}"
ReplyScoreTrue == "{\"score\": true}"
ReplyScoreHuge == "{\"score\": 1e400}"
ReplyScoreNegative == "{\"score\": -5, \"best_role\": \"Intern\"}"
ReplyEchoFailed == "{\"score\": 0, \"best_role\": \"AI Processing Failed\"}"
ReplyEchoUnknown == "{\"best_role\": \"Unknown\"}"

\* json.loads on the replies above
json_loads(content) ==
    CASE content = ReplyScenario -> JDict(JInt(82), JRole("Backend Engineer"))
      [] content = ReplyProse -> DecodeError
      [] content = ReplyEmpty -> DecodeError
      [] content = ReplyPrefixed -> DecodeError
      [] content = ReplyList -> JList
      [] content = ReplyNumber -> JInt(7)
      [] content = ReplyNull -> JNull
      [] content = ReplyEmptyObject -> JDict(JAbsent, JAbsent)
      [] content = ReplyScoreWord -> JDict(JStr(<<"h", "i", "g", "h">>, "'high'"), JRole("QA"))
      [] content = ReplyScoreNull -> JDict(JNull, JAbsent)
      [] content = ReplyScoreFloat -> JDict(JFloat(82700), JRole("QA"))
      [] content = ReplyScoreText -> JDict(JStr(<<" ", "8", "2">>, "' 82'"), JAbsent)
      [] content = ReplyScoreTrue -> JDict(JBool(TRUE), JAbsent)
      [] content = ReplyScoreHuge -> JDict(JInf, JAbsent)
      [] content = ReplyScoreNegative -> JDict(JInt(0 - 5), JRole("Intern"))
      [] content = ReplyEchoFailed -> JDict(JInt(0), JRole("AI Processing Failed"))
      [] content = ReplyEchoUnknown -> JDict(JAbsent, JRole("Unknown"))

Returned(v) == [raised |-> FALSE, value |-> v]
Raised(kind, msg) == [raised |-> TRUE, exc |-> kind, msg |-> msg]

\* truncation toward zero
Trunc(m, unit) == IF m < 0 THEN 0 - ((0 - m) \div unit) ELSE m \div unit

\* int(x) on a JSON value
py_int(x) ==
    CASE x.type = "int" -> Returned(x.i)
      [] x.type = "bool" -> Returned(IF x.b THEN 1 ELSE 0)
      [] x.type = "float" -> Returned(Trunc(x.milli, 1000))
      [] x.type = "float_inf" ->
            Raised("OverflowError", "cannot convert float infinity to integer")
      [] x.type = "str" ->
            IF IntOk(x.s) THEN Returned(IntOf(x.s))
            ELSE Raised("ValueError",
                        "invalid literal for int() with base 10: " \o x.repr)
      [] OTHER ->
            Raised("TypeError",
                   "int() argument must be a string, a bytes-like object or a real number, not '"
                       \o x.type \o "'")

\* what the call to the external model does: it raises, or it answers with a
\* response that has no parts, or with a response that carries text
ModelRaises(cause) == [kind |-> "raise", cause |-> cause]
ModelNoParts == [kind |-> "no_parts", cause |-> "list index out of range"]
ModelText(text) == [kind |-> "text", text |-> text]

Result(score, best_role, raw) == [score |-> score, best_role |-> best_role, raw |-> raw]

\* the parse fallback returned for an invocation failure
FailedResult_as_unknown(msg) == Result(50, "Unknown", msg)

FailedResult(msg) == Result(0, "AI Processing Failed", "AI Error: " \o msg)

\* analyze_resume_with_ai, given what the model call does
analyze_resume_with_ai(skills_text, outcome) ==
    IF outcome.kind # "text" THEN FailedResult(outcome.cause)
    ELSE
        LET content == outcome.text
            parsed == json_loads(content)
        IN  IF parsed.type = "JSONDecodeError" THEN Result(50, "Unknown", content)
            ELSE IF parsed.type # "dict"
            THEN FailedResult("'" \o parsed.type \o "' object has no attribute 'get'")
            ELSE
                LET score == py_int(IF parsed.score.type = "absent"
                                    THEN JInt(50) ELSE parsed.score)
                    best_role == IF parsed.best_role.type = "absent"
                                 THEN "Generalist" ELSE parsed.best_role.text
                IN  IF score.raised THEN FailedResult(score.msg)
                    ELSE Result(score.value, best_role, content)


----------------------------------------------------------------------------
(* Durable stores and their readers *)

AdminEmail ==
    <<"a", "d", "m", "i", "n", "@", "a", "d", "m", "i", "n", ".", "c", "o", "m">>
AdminPassword == <<"a", "d", "m", "i", "n", "1", "2", "3">>

UserRow(email, password, is_admin) ==
    [Email |-> email, Password |-> password, IsAdmin |-> is_admin]

\* the row written when users.csv is created
SeedUsers == <<UserRow(AdminEmail, AdminPassword, <<"1">>)>>

\* a row of users.csv as csv.DictReader over open(USERS_CSV, "r") yields it
ReadUser(row) ==
    UserRow(UniversalNewlines(row.Email), UniversalNewlines(row.Password),
            UniversalNewlines(row.IsAdmin))

ReadUsers == [i \in 1..Len(users) |-> ReadUser(users[i])]

SubmissionRow(name, email, skills, filename, score, best_role, raw_feedback) ==
    [Name |-> name, Email |-> email, Skills |-> skills, Filename |-> filename,
     AIScore |-> score, BestRole |-> best_role, AIFeedback |-> raw_feedback]

\* a row of submissions.csv as csv.DictReader over open(SUBMISSIONS_CSV, "r")
\* yields it; a field missing from a short row is None
ReadSubmission(row) ==
    [row EXCEPT
        !.Filename = UniversalNewlines(@),
        !.AIScore = IF @ = None THEN None ELSE UniversalNewlines(@)]

ReadLedger == [i \in 1..Len(ledger) |-> ReadSubmission(ledger[i])]

\* the file opened with "w": the row replaces the content
write_row(rows, row) == <<row>>

\* open(path, "a") and one writerow
append_row(rows, row) == Append(rows, row)

\* the bare name tested instead of the path in RESUMES_FOLDER
path_exists_cwd(filename) == FALSE

\* every candidate name is reported as taken
path_exists_always(filename) == TRUE

\* os.path.exists(os.path.join(RESUMES_FOLDER, filename))
path_exists(filename) == filename \in DOMAIN storage

----------------------------------------------------------------------------
(* Ranking *)

Reverse(s) == [i \in 1..Len(s) |-> s[Len(s) + 1 - i]]

\* key=lambda r: int(r.get("AIScore", 0))
sort_key(r) == IntOf(r.AIScore)

\* insert r behind every element whose key is not greater
RECURSIVE InsertStable(_, _)
InsertStable(sorted, r) ==
    IF sorted = <<>> THEN <<r>>
    ELSE IF sort_key(Head(sorted)) <= sort_key(r)
    THEN <<Head(sorted)>> \o InsertStable(Tail(sorted), r)
    ELSE <<r>> \o sorted

RECURSIVE StableSort(_)
StableSort(rows) ==
    IF rows = <<>> THEN <<>>
    ELSE InsertStable(StableSort(SubSeq(rows, 1, Len(rows) - 1)), rows[Len(rows)])

\* sorted ascending, then reversed: ties come out in reverse insertion order
sort_then_reverse(rows) == Reverse(StableSort(rows))

\* list.sort(key=..., reverse=True): the list is reversed, sorted stably in
\* ascending key order and reversed again
sort_reverse(rows) == Reverse(StableSort(Reverse(rows)))

\* the keys are computed for every row before any comparison; one that raises
\* aborts the sort
KeysOk(rows) == \A i \in 1..Len(rows) : IntOk(rows[i].AIScore)

----------------------------------------------------------------------------
(* Requests *)

EmptySession == [has_user |-> FALSE, user |-> <<>>, is_admin |-> FALSE]

\* every session passes for one with an identity
logged_in_any(p) == TRUE

\* "user" in session
logged_in(p) == session[p].has_user

\* session.get("is_admin")
is_admin_session(p) == session[p].is_admin

\* the row written with the admin flag set
new_account_admin(email, password) == UserRow(email, password, <<"1">>)

\* writer.writerow([email, password, "0"])
new_account(email, password) == UserRow(email, password, <<"0">>)

NoResult == Result(0, "", "")
NoOutcome == [kind |-> "", cause |-> ""]

EmptyFrame ==
    [email |-> <<>>, password |-> <<>>, name |-> "", uemail |-> "", skills |-> "",
     raw |-> <<>>, filename |-> <<>>, base |-> <<>>, ext |-> <<>>, counter |-> 0, bytes |-> 0,
     outcome |-> NoOutcome, result |-> NoResult]

\* responses, with the message flashed before a redirect
Redirect(p, target, flash) ==
    [to |-> p, kind |-> "redirect", target |-> target, flash |-> flash, data |-> <<>>]
Render(p, page, data) ==
    [to |-> p, kind |-> "render", target |-> page, flash |-> "", data |-> data]
ServerError(p, exc) ==
    [to |-> p, kind |-> "error", target |-> exc, flash |-> "", data |-> <<>>]
NoResponse == [to |-> "", kind |-> "", target |-> "", flash |-> "", data |-> <<>>]

\* form inputs
RawEmails == {<<>>, <<"a">>, <<"a", "\r", "b">>, AdminEmail}
RawPasswords == {<<>>, <<"p", " ">>, AdminPassword}
\* the passwords new accounts are asked for
SignupPasswords == {<<>>, <<"p", " ">>}
RawFilenames ==
    {<<>>,
     <<"r", ".", "p", "d", "f">>,
     <<"/", "r", ".", "P", "D", "F">>,
     <<"r", "_", "1", ".", "p", "d", "f">>,
     <<"r", ".", "t", "x", "t">>}
FormNames == {"Ann"}
FormEmails == {"ann@x.org"}
FormSkills == {"", "Python, SQL"}

\* what the model call does during an upload
UploadOutcomes ==
    {ModelRaises("quota exceeded"), ModelText(ReplyProse), ModelText(ReplyScenario)}

\* requests handled one at a time: a request starts only while no other client
\* has one in flight
Alone(p) == \A q \in Procs \ {p} : pc[q] = "idle"

\* client p may send a request
MayStart(p) == pc[p] = "idle" /\ (threaded \/ Alone(p))

\* the stores as the module creates them (lines 22-32)
FreshStores ==
    /\ users = SeedUsers
    /\ ledger = <<>>
    /\ storage = [n \in {} |-> 0]
    /\ session = [p \in Procs |-> EmptySession]
    /\ pc = [p \in Procs |-> "idle"]
    /\ frame = [p \in Procs |-> EmptyFrame]
    /\ response = NoResponse
    /\ nUploads = 0
    /\ nSignups = 0

\* the threaded server of app.run
Init == FreshStores /\ threaded = TRUE

\* a server that handles one request at a time
SeqInit == FreshStores /\ threaded = FALSE

\* signup, POST, up to the duplicate check (lines 86-97)
signup(p, raw_email, raw_password) ==
    /\ MayStart(p)
    /\ LET email == Strip(raw_email)
           password == Strip(raw_password)
       IN  IF email = <<>> \/ password = <<>>
           THEN /\ response' = Redirect(p, "signup", "Provide email and password")
                /\ UNCHANGED <<pc, frame, nSignups>>
           ELSE IF \E i \in 1..Len(users) : ReadUser(users[i]).Email = email
           THEN /\ response' = Redirect(p, "login", "Account already exists. Please login.")
                /\ UNCHANGED <<pc, frame, nSignups>>
           ELSE /\ nUploads + nSignups < MaxWrites
                /\ nSignups' = nSignups + 1
                /\ pc' = [pc EXCEPT ![p] = "signup_append"]
                /\ frame' = [frame EXCEPT ![p] =
                                [EmptyFrame EXCEPT !.email = email, !.password = password]]
                /\ UNCHANGED response
    /\ UNCHANGED <<users, ledger, storage, session, nUploads, threaded>>

\* signup, the append (lines 99-104)
signup_append(p) ==
    /\ pc[p] = "signup_append"
    /\ users' = append_row(users, new_account(frame[p].email, frame[p].password))
    /\ response' = Redirect(p, "login", "Account created. Please login.")
    /\ pc' = [pc EXCEPT ![p] = "idle"]
    /\ frame' = [frame EXCEPT ![p] = EmptyFrame]
    /\ UNCHANGED <<ledger, storage, session, nUploads, nSignups, threaded>>

\* login, POST (lines 109-128)
login(p, raw_email, raw_password) ==
    /\ MayStart(p)
    /\ LET email == Strip(raw_email)
           password == Strip(raw_password)
           matches == {i \in 1..Len(users) :
                          /\ ReadUser(users[i]).Email = email
                          /\ ReadUser(users[i]).Password = password}
       IN  IF matches # {}
           THEN LET row == ReadUser(users[CHOOSE i \in matches : \A j \in matches : i <= j])
                    is_admin == (row.IsAdmin = <<"1">>)
                IN  /\ session' = [session EXCEPT ![p] =
                                      [has_user |-> TRUE, user |-> email,
                                       is_admin |-> is_admin]]
                    /\ response' = Redirect(p, IF is_admin THEN "admin_dashboard" ELSE "upload",
                                            "Logged in successfully")
           ELSE /\ response' = Render(p, "login.html", <<>>)
                /\ UNCHANGED session
    /\ UNCHANGED <<users, ledger, storage, pc, frame, nUploads, nSignups, threaded>>

\* logout that drops the identity and keeps the admin flag
logout_keep_flag(p) ==
    /\ MayStart(p)
    /\ session' = [session EXCEPT ![p] = [EmptySession EXCEPT !.is_admin = session[p].is_admin]]
    /\ response' = Redirect(p, "login", "Logged out successfully")
    /\ UNCHANGED <<users, ledger, storage, pc, frame, nUploads, nSignups, threaded>>

\* logout (lines 131-134)
logout(p) ==
    /\ MayStart(p)
    /\ session' = [session EXCEPT ![p] = EmptySession]
    /\ response' = Redirect(p, "login", "Logged out successfully")
    /\ UNCHANGED <<users, ledger, storage, pc, frame, nUploads, nSignups, threaded>>


\* upload, POST, up to the first candidate name (lines 138-160)
upload(p, name, email, skills, raw_filename) ==
    /\ MayStart(p)
    /\ IF ~logged_in(p)
       THEN /\ response' = Redirect(p, "login", "Please login to upload resume")
            /\ UNCHANGED <<pc, frame, nUploads>>
       ELSE IF name = "" \/ email = "" \/ skills = "" \/ raw_filename = <<>>
       THEN /\ response' = Redirect(p, "upload", "All fields required")
            /\ UNCHANGED <<pc, frame, nUploads>>
       ELSE IF ~allowed_file(raw_filename)
       THEN /\ response' = Redirect(p, "upload", "Only PDF resumes are allowed")
            /\ UNCHANGED <<pc, frame, nUploads>>
       ELSE LET filename == secure_filename(raw_filename)
                parts == splitext(filename)
            IN  /\ nUploads + nSignups < MaxWrites
                /\ nUploads' = nUploads + 1
                /\ pc' = [pc EXCEPT ![p] = "upload_exists"]
                /\ frame' = [frame EXCEPT ![p] =
                                [EmptyFrame EXCEPT
                                    !.name = name, !.uemail = email, !.skills = skills,
                                    !.raw = raw_filename,
                                    !.filename = filename, !.base = parts[1],
                                    !.ext = parts[2], !.counter = 1,
                                    !.bytes = nUploads + 1]]
                /\ UNCHANGED response
    /\ UNCHANGED <<users, ledger, storage, session, nSignups, threaded>>

\* upload, one test of the collision loop (lines 161-164)
upload_exists(p) ==
    /\ pc[p] = "upload_exists"
    /\ IF path_exists(frame[p].filename)
       THEN /\ frame' = [frame EXCEPT
                            ![p].filename =
                                suffixed(frame[p].base, frame[p].counter, frame[p].ext),
                            ![p].counter = @ + 1]
            /\ UNCHANGED pc
       ELSE /\ pc' = [pc EXCEPT ![p] = "upload_save"]
            /\ UNCHANGED frame
    /\ UNCHANGED <<users, ledger, storage, session, response, nUploads, nSignups, threaded>>

\* upload, resume.save(save_path) (line 166)
upload_save(p) ==
    /\ pc[p] = "upload_save"
    /\ storage' = [n \in DOMAIN storage \cup {frame[p].filename} |->
                      IF n = frame[p].filename THEN frame[p].bytes ELSE storage[n]]
    /\ pc' = [pc EXCEPT ![p] = "upload_score"]
    /\ UNCHANGED <<users, ledger, session, frame, response, nUploads, nSignups, threaded>>

\* the call of the scoring adapter lets an exception of the model call through
upload_score_aborts(p, outcome) ==
    /\ pc[p] = "upload_score"
    /\ IF outcome.kind # "text"
       THEN /\ response' = ServerError(p, outcome.cause)
            /\ pc' = [pc EXCEPT ![p] = "idle"]
            /\ frame' = [frame EXCEPT ![p] = EmptyFrame]
       ELSE /\ frame' = [frame EXCEPT
                            ![p].outcome = outcome,
                            ![p].result = analyze_resume_with_ai(frame[p].skills, outcome)]
            /\ pc' = [pc EXCEPT ![p] = "upload_append"]
            /\ UNCHANGED response
    /\ UNCHANGED <<users, ledger, storage, session, nUploads, nSignups, threaded>>

\* upload, the call of the scoring adapter (line 169)
upload_score(p, outcome) ==
    /\ pc[p] = "upload_score"
    /\ frame' = [frame EXCEPT
                    ![p].outcome = outcome,
                    ![p].result = analyze_resume_with_ai(frame[p].skills, outcome)]
    /\ pc' = [pc EXCEPT ![p] = "upload_append"]
    /\ UNCHANGED <<users, ledger, storage, session, response, nUploads, nSignups, threaded>>

\* upload, the ledger append and the response (lines 171-176)
upload_append(p) ==
    /\ pc[p] = "upload_append"
    /\ ledger' = append_row(ledger,
                        SubmissionRow(frame[p].name, frame[p].uemail, frame[p].skills,
                                      frame[p].filename, Str(frame[p].result.score),
                                      frame[p].result.best_role, frame[p].result.raw))
    /\ response' = Redirect(p, "upload", "Resume uploaded!")
    /\ pc' = [pc EXCEPT ![p] = "idle"]
    /\ frame' = [frame EXCEPT ![p] = EmptyFrame]
    /\ UNCHANGED <<users, storage, session, nUploads, nSignups, threaded>>

\* admin_dashboard (lines 182-193)
admin_dashboard(p) ==
    /\ MayStart(p)
    /\ IF ~is_admin_session(p)
       THEN response' = Redirect(p, "login", "Admin access required")
       ELSE LET rows == ReadLedger
            IN  IF KeysOk(rows)
                THEN response' = Render(p, "admin.html", sort_reverse(rows))
                ELSE response' = ServerError(p, IF \E i \in 1..Len(rows) : rows[i].AIScore = None
                                                THEN "TypeError" ELSE "ValueError")
    /\ UNCHANGED <<users, ledger, storage, session, pc, frame, nUploads, nSignups, threaded>>

\* one step of the request client p has in flight, or the start of a new one
Step(p) ==
    \/ \E e \in RawEmails, w \in SignupPasswords : signup(p, e, w)
    \/ signup_append(p)
    \/ \E e \in RawEmails, w \in RawPasswords : login(p, e, w)
    \/ logout(p)
    \/ \E n \in FormNames, e \in FormEmails, k \in FormSkills, f \in RawFilenames :
          upload(p, n, e, k, f)
    \/ upload_exists(p)
    \/ upload_save(p)
    \/ \E o \in UploadOutcomes : upload_score(p, o)
    \/ upload_append(p)
    \/ admin_dashboard(p)

Next == \E p \in Procs : Step(p)

\* requests of different clients interleave
Spec == Init /\ [][Next]_vars

\* requests are handled one at a time
SeqSpec == SeqInit /\ [][Next]_vars

\* the steps of a handler after its first
Continue(p) ==
    \/ signup_append(p)
    \/ upload_exists(p)
    \/ upload_save(p)
    \/ \E o \in UploadOutcomes : upload_score(p, o)
    \/ upload_append(p)

\* a request that has started keeps running: the handler's next step is
\* eventually taken (the model call returns or raises)
Progress == WF_vars(\E p \in Procs : Continue(p))

\* one request at a time, each running to its response
LiveSpec == SeqInit /\ [][Next]_vars /\ Progress


----------------------------------------------------------------------------
(* The scoring step of an upload, over every reply of the model *)

AdapterSkills == {"Python, SQL", "x", "Go, Rust"}

AllReplies ==
    {ReplyScenario, ReplyProse, ReplyEmpty, ReplyPrefixed, ReplyList, ReplyNumber,
     ReplyNull, ReplyEmptyObject, ReplyScoreWord, ReplyScoreNull, ReplyScoreFloat,
     ReplyScoreText, ReplyScoreTrue, ReplyScoreHuge, ReplyScoreNegative,
     ReplyEchoFailed, ReplyEchoUnknown}

AllOutcomes ==
    {ModelRaises("quota exceeded"), ModelRaises("API key not valid"), ModelNoParts}
        \cup {ModelText(t) : t \in AllReplies}

StoredName == <<"r", ".", "p", "d", "f">>

\* client c1 is logged in and has stored its document; the adapter is called next
AdapterInit ==
    /\ users = SeedUsers
    /\ ledger = <<>>
    /\ storage = [n \in {StoredName} |-> 1]
    /\ session = [p \in Procs |->
                    IF p = "c1"
                    THEN [has_user |-> TRUE, user |-> AdminEmail, is_admin |-> TRUE]
                    ELSE EmptySession]
    /\ pc = [p \in Procs |-> IF p = "c1" THEN "upload_score" ELSE "idle"]
    /\ \E k \in AdapterSkills :
          frame = [p \in Procs |->
                      IF p = "c1"
                      THEN [EmptyFrame EXCEPT
                               !.name = "Ann", !.uemail = "ann@x.org", !.skills = k,
                               !.raw = StoredName,
                               !.filename = StoredName, !.base = <<"r">>,
                               !.ext = <<".", "p", "d", "f">>, !.counter = 1,
                               !.bytes = 1]
                      ELSE EmptyFrame]
    /\ response = NoResponse
    /\ nUploads = 1
    /\ nSignups = 0
    /\ threaded = TRUE

AdapterNext ==
    \E p \in Procs :
        \/ \E o \in AllOutcomes : upload_score(p, o)
        \/ upload_append(p)

AdapterSpec == AdapterInit /\ [][AdapterNext]_vars

----------------------------------------------------------------------------
(* The ranking, over the contents of a submissions.csv found at start-up *)

\* score fields of such a file: numbers, text that is no number, an empty
\* field, and a field missing from a short row
ScoreFields == {<<"1", "0">>, <<"9", "0">>, <<"5">>, <<"N", "/", "A">>, <<>>, None}

FoundLedgers ==
    UNION {[1..n -> ScoreFields] : n \in 0..MaxRows}

AdminSession == [has_user |-> TRUE, user |-> AdminEmail, is_admin |-> TRUE]

RankInit ==
    /\ users = SeedUsers
    /\ \E scores \in FoundLedgers :
          ledger = [i \in 1..Len(scores) |->
                       SubmissionRow("Ann", "ann@x.org", "Python, SQL",
                                     suffixed(<<"r">>, i, <<".", "p", "d", "f">>),
                                     scores[i], "QA", "ok")]
    /\ storage = [n \in {} |-> 0]
    /\ session \in [Procs -> {EmptySession, AdminSession}]
    /\ pc = [p \in Procs |-> "idle"]
    /\ frame = [p \in Procs |-> EmptyFrame]
    /\ response = NoResponse
    /\ nUploads = 0
    /\ nSignups = 0
    /\ threaded = TRUE

RankNext == \E p \in Procs : admin_dashboard(p)

RankSpec == RankInit /\ [][RankNext]_vars


----------------------------------------------------------------------------
(* Claims *)

Saving(p) == pc[p] = "upload_save"
Scored(p) == pc[p] = "upload_append"

\* C1: with uploads handled one at a time, the name the collision loop hands
\* to the save is not the name of any stored document.
C1_FreshName == \A p \in Procs : Saving(p) => frame[p].filename \notin DOMAIN storage

\* a second upload of a stored name went through the loop and is about to save
C1_Witness ==
    \E p \in Procs :
        /\ Saving(p)
        /\ frame[p].counter > 1
        /\ frame[p].base \o frame[p].ext \in DOMAIN storage
        /\ frame[p].filename \notin DOMAIN storage

\* C2: under any interleaving of uploads, a stored document keeps its name and
\* its bytes for ever: no save replaces or removes it.
C2_NeverOverwritten ==
    [][\A n \in DOMAIN storage : n \in DOMAIN storage' /\ storage'[n] = storage[n]]_vars

\* C3: under any interleaving of signups, no two rows of the credential store
\* carry the same identifier.
C3_UniqueIdentifier ==
    \A i, j \in 1..Len(users) : i # j => users[i].Email # users[j].Email

\* C4: with signups handled one at a time, a signup whose identifier is already
\* in the credential store is rejected: it never goes on to the append.
C4_DuplicateRejected ==
    [][\A p \in Procs :
          pc[p] = "idle" /\ pc'[p] = "signup_append"
              => \A i \in 1..Len(users) : users[i].Email # frame'[p].email]_vars

\* C5: the ledger only grows at its end: over every step of every request the
\* ledger before is a prefix of the ledger after.
C5_AppendOnly ==
    [][/\ Len(ledger) <= Len(ledger')
       /\ SubSeq(ledger', 1, Len(ledger)) = ledger]_vars

\* two uploads were appended and the administrator then read the ranking
C5_Witness ==
    /\ Len(ledger) = 2
    /\ response.kind = "render"
    /\ response.target = "admin.html"
    /\ Len(response.data) = 2

\* a reply that is text but is not a JSON object with a usable score
Malformed(outcome) ==
    /\ outcome.kind = "text"
    /\ LET parsed == json_loads(outcome.text)
       IN  \/ parsed.type # "dict"
           \/ parsed.score.type # "absent" /\ py_int(parsed.score).raised

\* C6: for every malformed reply the adapter returns score 50 and a non-empty
\* raw response.
C6_MalformedScores50 ==
    \A p \in Procs :
        Scored(p) /\ Malformed(frame[p].outcome)
            => frame[p].result.score = 50 /\ frame[p].result.raw # ""

\* C7: when the model call raises, the adapter returns score 0, role
\* "AI Processing Failed" and "AI Error: <cause>", and the upload goes on.
C7_InvocationFailure ==
    \A p \in Procs :
        Scored(p) /\ frame[p].outcome.kind = "raise"
            => frame[p].result =
                   Result(0, "AI Processing Failed", "AI Error: " \o frame[p].outcome.cause)

\* the model call raised and the upload is about to append its record
C7_Witness ==
    \E p \in Procs : Scored(p) /\ frame[p].outcome.kind = "raise"

\* C8: role "AI Processing Failed" is returned only when the model call gave no
\* text, and role "Unknown" only when its text failed to parse.
C8_Distinguishable ==
    \A p \in Procs :
        Scored(p) =>
            /\ frame[p].result.best_role = "AI Processing Failed"
                   => frame[p].outcome.kind # "text"
            /\ frame[p].result.best_role = "Unknown"
                   => /\ frame[p].outcome.kind = "text"
                      /\ json_loads(frame[p].outcome.text) = DecodeError

Ranked == response.kind = "render" /\ response.target = "admin.html"

\* position of a row in the ledger as read
Position(row) == CHOOSE i \in 1..Len(ledger) : ReadSubmission(ledger[i]) = row

\* C9: the ranking holds every ledger record once, in non-increasing score
\* order, records of equal score in insertion order.
C9_StableDescending ==
    Ranked =>
        LET out == response.data
        IN  /\ Len(out) = Len(ledger)
            /\ \A i \in 1..Len(ledger) :
                  \E j \in 1..Len(out) : out[j] = ReadSubmission(ledger[i])
            /\ \A i, j \in 1..Len(out) :
                  i < j =>
                      /\ sort_key(out[i]) >= sort_key(out[j])
                      /\ sort_key(out[i]) = sort_key(out[j])
                             => Position(out[i]) < Position(out[j])

\* scores 10, 90, 90, 5 are ranked second, third, first, fourth
C9_Witness ==
    /\ Ranked
    /\ Len(ledger) = 4
    /\ [i \in 1..4 |-> ledger[i].AIScore] = <<<<"1", "0">>, <<"9", "0">>, <<"9", "0">>, <<"5">>>>
    /\ [i \in 1..4 |-> Position(response.data[i])] = <<2, 3, 1, 4>>

\* C10: the ranking request never fails, whatever the score fields hold.
C10_NeverFails == response.kind # "error"

UploadPcs == {"upload_exists", "upload_save", "upload_score", "upload_append"}

\* a step that writes a store is the save or the append of an upload in flight
WritesOnlyInUpload ==
    /\ storage' # storage => \E p \in Procs : pc[p] = "upload_save" /\ pc'[p] = "upload_score"
    /\ ledger' # ledger => \E p \in Procs : pc[p] = "upload_append" /\ pc'[p] = "idle"

\* C11: no upload is in progress for a client without a session identity, so
\* nothing is stored or appended for one; a ranking is only ever sent to a
\* session with the admin flag; the refusals redirect to the login page.
C11_Unauthorized ==
    /\ [](\A p \in Procs : pc[p] \in UploadPcs => session[p].has_user)
    /\ [][WritesOnlyInUpload]_vars
    /\ [][response' # response /\ Ranked' => session[response'.to].is_admin]_vars
    /\ [](response.flash \in {"Please login to upload resume", "Admin access required"}
             => response.kind = "redirect" /\ response.target = "login"
                /\ response.data = <<>>)

\* a client without a session asked to upload while the stores hold a submission
C11_Witness ==
    /\ response.flash = "Please login to upload resume"
    /\ ~session[response.to].has_user
    /\ Len(ledger) >= 1
    /\ DOMAIN storage # {}

PdfExt == <<".", "p", "d", "f">>

\* C12: an upload whose file name does not end in .pdf (in any case) never
\* enters the store-score-append steps, and a request answered at once leaves
\* document storage and the ledger as they were.
C12_RejectedIntake ==
    /\ [](\A p \in Procs :
             pc[p] \in UploadPcs => Lower(splitext(frame[p].raw)[2]) = PdfExt)
    /\ [][(\A p \in Procs : pc'[p] = pc[p]) => UNCHANGED <<storage, ledger>>]_vars
    /\ [](response.flash = "Only PDF resumes are allowed"
             => response.kind = "redirect" /\ response.target = "upload")

\* a logged-in client was refused a file while the stores hold a submission
C12_Witness ==
    /\ response.flash = "Only PDF resumes are allowed"
    /\ session[response.to].has_user
    /\ Len(ledger) >= 1
    /\ DOMAIN storage # {}

\* the step of client p that ends the scoring call
ScoreReturns(p) == pc[p] = "upload_score" /\ pc'[p] # "upload_score"

\* the step of client p that ends its upload
UploadEnds(p) == pc[p] = "upload_append" /\ pc'[p] # "upload_append"

\* C13: an upload that has stored its document runs on to its response; the
\* scoring call always hands a result to the append, with storage and ledger as
\* the save left them, and the append adds one record, the last of the ledger,
\* that carries the stored name and the result of the call.
C13_RecordFollowsStore ==
    /\ \A p \in Procs :
          (pc[p] = "upload_score")
              ~> (response = Redirect(p, "upload", "Resume uploaded!") /\ pc[p] = "idle")
    /\ [](\A p \in Procs :
             pc[p] \in {"upload_score", "upload_append"}
                 => /\ frame[p].filename \in DOMAIN storage
                    /\ \A i \in 1..Len(ledger) :
                          ReadSubmission(ledger[i]).Filename # frame[p].filename)
    /\ [][\A p \in Procs :
             ScoreReturns(p)
                 => /\ pc'[p] = "upload_append"
                    /\ frame'[p].filename = frame[p].filename
                    /\ UNCHANGED <<storage, ledger>>]_vars
    /\ [][\A p \in Procs :
             UploadEnds(p)
                 => /\ pc'[p] = "idle"
                    /\ Len(ledger') = Len(ledger) + 1
                    /\ SubSeq(ledger', 1, Len(ledger)) = ledger
                    /\ ledger'[Len(ledger')].Filename = frame[p].filename
                    /\ ledger'[Len(ledger')].AIScore = Str(frame[p].result.score)
                    /\ UNCHANGED storage]_vars

\* a record was appended for an upload whose model call raised
C13_Witness ==
    /\ response.flash = "Resume uploaded!"
    /\ Len(ledger) >= 1
    /\ ledger[Len(ledger)].BestRole = "AI Processing Failed"
    /\ ledger[Len(ledger)].Filename \in DOMAIN storage

\* the name base_k.ext
Candidate(p, k) == frame[p].base \o <<"_">> \o StrNat(k) \o frame[p].ext

ParsedObject(p) ==
    /\ Scored(p)
    /\ frame[p].outcome.kind = "text"
    /\ json_loads(frame[p].outcome.text).type = "dict"

\* C15: when the reply parses as a JSON object the adapter returns the reply
\* text unmodified as the raw response, the object's best_role ("Generalist"
\* when absent) as the role, and the object's integer score (50 when absent).
C15_ParsedObject ==
    \A p \in Procs :
        ParsedObject(p) =>
            LET parsed == json_loads(frame[p].outcome.text)
                result == frame[p].result
            IN  /\ result.raw = frame[p].outcome.text
                /\ result.best_role = IF parsed.best_role.type = "absent"
                                      THEN "Generalist" ELSE parsed.best_role.text
                /\ parsed.score.type = "absent" => result.score = 50
                /\ parsed.score.type = "int" => result.score = parsed.score.i

\* rows of the credential store, as written, that carry the identifier and the
\* secret
Holding(email, password) ==
    {i \in 1..Len(users) : users[i].Email = email /\ users[i].Password = password}

\* C16: a login is accepted exactly when the credential store holds a row with
\* the submitted (trimmed) identifier and secret; an accepted login puts that
\* identifier and that row's admin flag in the session, a rejected one leaves
\* every session as it was.
C16_ExactMatch ==
    [][\A p \in Procs, e \in RawEmails, w \in RawPasswords :
          login(p, e, w) =>
              LET held == Holding(Strip(e), Strip(w))
              IN  /\ (held # {}) <=> (response'.flash = "Logged in successfully")
                  /\ held # {} =>
                        /\ session'[p].has_user
                        /\ session'[p].user = Strip(e)
                        /\ session'[p].is_admin
                              <=> \E i \in held : users[i].IsAdmin = <<"1">>
                  /\ held = {} => session' = session]_vars

\* C17: the seeded administrator stays the first row and is the only row with
\* the admin flag, as written and as read; rows are only added at the end; and
\* a session gains the admin flag only by a login with the seeded
\* administrator's identifier and secret.
C17_OnlySeededAdmin ==
    /\ [](/\ Len(users) >= 1
          /\ users[1] = SeedUsers[1]
          /\ \A i \in 2..Len(users) :
                users[i].IsAdmin = <<"0">> /\ ReadUser(users[i]).IsAdmin = <<"0">>
          /\ \A p \in Procs :
                session[p].is_admin => session[p].has_user /\ session[p].user = AdminEmail)
    /\ [][/\ Len(users') >= Len(users)
          /\ SubSeq(users', 1, Len(users)) = users]_vars
    /\ [][\A p \in Procs :
             session'[p].is_admin /\ ~session[p].is_admin
                 => login(p, AdminEmail, AdminPassword)]_vars

\* an account was added, one client is logged in as the administrator and the
\* other as the new account
C17_Witness ==
    /\ Len(users) >= 2
    /\ \E p, q \in Procs :
          /\ session[p].is_admin
          /\ session[q].has_user
          /\ ~session[q].is_admin
          /\ session[q].user = users[2].Email

\* client p is in the collision loop or has just left it
Probing(p) == pc[p] \in {"upload_exists", "upload_save"}

\* C18: the collision loop ends and the upload goes on to the save; counter,
\* the number of the probe being made (of the probes made, once the loop has
\* ended), never exceeds the number of stored documents plus one.
C18_LoopTerminates ==
    /\ [](\A p \in Procs :
             Probing(p) => /\ frame[p].counter >= 1
                           /\ frame[p].counter <= Cardinality(DOMAIN storage) + 1)
    /\ \A p \in Procs : (pc[p] = "upload_exists") ~> (pc[p] = "upload_save")

\* the loop ended after as many probes as there are stored documents plus one
C18_Witness ==
    \E p \in Procs :
        /\ pc[p] = "upload_save"
        /\ DOMAIN storage # {}
        /\ frame[p].counter = Cardinality(DOMAIN storage) + 1

\* the file name of ledger record i, as read
LedgerName(i) == ReadSubmission(ledger[i]).Filename

\* C19: with uploads handled one at a time, every ledger record names a stored
\* document and no two ledger records name the same one.
C19_LedgerRefersToStorage ==
    /\ \A i \in 1..Len(ledger) : LedgerName(i) \in DOMAIN storage
    /\ \A i, j \in 1..Len(ledger) : i # j => LedgerName(i) # LedgerName(j)

\* two uploads of r.pdf are recorded, each with its own stored document
C19_Witness ==
    /\ Len(ledger) = 2
    /\ LedgerName(1) = <<"r", ".", "p", "d", "f">>
    /\ LedgerName(2) = <<"r", "_", "1", ".", "p", "d", "f">>
    /\ Cardinality(DOMAIN storage) = 2

\* what a step may do for a client whose session is empty
StepWithoutSession(p) ==
    /\ pc'[p] \notin UploadPcs
    /\ response' # response /\ response'.to = p
          => \/ response'.kind = "redirect" /\ response'.target \in {"login", "signup"}
             \/ response'.flash = "Logged in successfully" /\ session'[p].has_user
             \/ response'.kind = "render" /\ response'.target = "login.html"
    /\ session'[p] # EmptySession => response'.flash = "Logged in successfully"
    /\ pc'[p] # pc[p] \/ (response' # response /\ response'.to = p)
          => UNCHANGED <<storage, ledger>>

\* C20: the response to a logout finds the client's session empty, with no
\* identity and no admin flag; a client whose session is empty starts no
\* upload and is sent no ranking, its upload and ranking requests are
\* redirected to the login page, and its session stays empty until a login of
\* it succeeds.
C20_LogoutEndsSession ==
    /\ [](response.flash = "Logged out successfully"
             => /\ session[response.to] = EmptySession
                /\ response.kind = "redirect" /\ response.target = "login")
    /\ [](\A p \in Procs : ~session[p].has_user => session[p] = EmptySession)
    /\ [][\A p \in Procs : session[p] = EmptySession => StepWithoutSession(p)]_vars

\* a client uploaded and logged out, and no client is logged in
C20_Witness ==
    /\ response.flash = "Logged out successfully"
    /\ \A p \in Procs : session[p] = EmptySession
    /\ Len(ledger) >= 1

====
